---- MODULE Spec2Model ----
(***************************************************************************)
(* The interview session controller of api_server.py.                      *)
(*                                                                         *)
(* sessions is the module-level dict (session id -> reference to a session *)
(* dict), heap holds the session dicts themselves (Python dicts are        *)
(* mutated through references, and start_interview rebinds the id to a new *)
(* dict), th is the position and the locals of every request-handling      *)
(* worker thread.  A handler is cut into steps at its calls of the         *)
(* text-generation oracle (gemini_model.generate_content), the only places *)
(* where a handler blocks; every step is one action.                       *)
(*                                                                         *)
(* The Exchange field "timestamp" (api_server.py line 142) is written and  *)
(* never read by any handler; it is left out of the exchange records.      *)
(***************************************************************************)
EXTENDS Integers, Sequences, FiniteSets, TLC

VARIABLES sessions, heap, th, tally

vars == <<sessions, heap, th, tally>>

(***************************************************************************)
(* Bounds and program constants.                                           *)
(***************************************************************************)
\* How many judgments with needs_followup set the oracle gives one session.
MaxFollowups == 1

\* How many oracle calls made after the evaluation fail for one session.
MaxLateFailures == 1

\* A further answer is taken while the history is shorter than this: under
\* the serial specification (the code has no such limit; with MaxLateFailures
\* late failures the history stays within max_questions + MaxLateFailures) and
\* under the concurrent one.
MaxHistory == 12
MaxConcHistory == 1
MaxTwoHistory == 2

\* The two-client specification takes answers on histories shorter than
\* MaxTwoHistory; the evaluator's outputs have at most MaxTextLen tokens.
MaxTextLen == 4

\* api_server.py line 147: max_questions = 10
max_questions == 10

\* api_server.py line 99
first_question == <<"Tell me about yourself">>

None == <<"#None">>
NoObj == "NoObj"

SerialThreads == {"t1"}
Threads == {"t1", "t2"}
ObjIds == {"o1", "o2", "o3"}

SessionIds == {"s1"}

\* A start request without session_id (None or "", both falsy at line 96),
\* and the readings of datetime.now().timestamp().
NoId == ""
Clock == {0, 1}
Modes == {"role", "resume"}
Contents == {"Backend Engineer"}
Answers == {"a1"}

(***************************************************************************)
(* The oracle.  A text is a sequence of tokens; " " and "\n" are the       *)
(* whitespace tokens.                                                      *)
(***************************************************************************)
Whitespace == {" ", "\n"}

NextReplies == {<<" ", "Q", "\n">>}
FollowupReplies == {<<"F", "\n">>}
FinalReplies == {<<"\n", "Overall", " ", "good", " ">>}
EvaluateErrors == {"OracleUnavailable", "MalformedModelOutput"}
GenerationErrors == {"OracleUnavailable"}

\* What json.loads may return to evaluate_answer's caller: the judgment with
\* needs_followup true, false or absent, and one without its feedback.
Judgments ==
    { [feedback |-> "weak", score |-> 0, needs_followup |-> TRUE,
       weaknesses |-> <<"vague">>],
      [feedback |-> "good", score |-> 1, needs_followup |-> FALSE,
       weaknesses |-> << >>],
      [feedback |-> "good", score |-> 1],
      [score |-> 1, needs_followup |-> FALSE] }

Min(S) == CHOOSE x \in S : \A y \in S : x <= y
Max(S) == CHOOSE x \in S : \A y \in S : x >= y

\* str.strip()
Strip(text) ==
    LET keep == {i \in 1..Len(text) : text[i] \notin Whitespace}
    IN  IF keep = {} THEN << >> ELSE SubSeq(text, Min(keep), Max(keep))

\* The tokens of an evaluator output: "FENCE" for the three backquotes of a
\* code fence, the language tag, blank, and "J" for a run of JSON text.
Tokens == {"FENCE", "json", " ", "J"}

Texts == UNION {[1..n -> Tokens] : n \in 0..MaxTextLen}

\* The places where the fence with its json tag stands in the text.
TagsIn(text) ==
    {i \in 1..(Len(text) - 1) : text[i] = "FENCE" /\ text[i + 1] = "json"}

FencesIn(text) == {i \in 1..Len(text) : text[i] = "FENCE"}

\* Line 263: text.split(fence + "json")[1]
AfterTag(text) ==
    LET rest == SubSeq(text, Min(TagsIn(text)) + 2, Len(text))
    IN  IF TagsIn(rest) = {} THEN rest
        ELSE SubSeq(rest, 1, Min(TagsIn(rest)) - 1)

\* Line 263: text.split(fence)[0]
BeforeFence(text) ==
    IF FencesIn(text) = {} THEN text
    ELSE SubSeq(text, 1, Min(FencesIn(text)) - 1)

\* Lines 260-263: what evaluate_answer hands to json.loads.
Payload(text) ==
    IF TagsIn(Strip(text)) # {}
    THEN Strip(BeforeFence(AfterTag(Strip(text))))
    ELSE Strip(text)

\* history[-3:]
LastThreeFirst(history) ==
    SubSeq(history, 1, Min({3, Len(history)}))

LastThree(history) ==
    SubSeq(history, Max({1, Len(history) - 2}), Len(history))

\* The prompts, by what they are built from.
EvaluatePrompt(question, answer, context) ==
    <<"evaluate", question, answer, context>>

NextQuestionPrompt(session) ==
    <<"next", session.mode, session.content,
      [i \in 1..Len(LastThree(session.conversation_history)) |->
          <<LastThree(session.conversation_history)[i].question,
            LastThree(session.conversation_history)[i].answer>>]>>

FollowupPrompt(question, answer, evaluation) ==
    <<"followup", question, answer,
      IF "weaknesses" \in DOMAIN evaluation THEN evaluation.weaknesses
      ELSE << >> >>

FinalFeedbackPrompt(history) ==
    <<"final", [i \in 1..Len(history) |->
                  <<history[i].question, history[i].answer, history[i].score>>]>>

(***************************************************************************)
(* Sessions and threads.                                                   *)
(***************************************************************************)
NewSession(mode, content) ==
    [mode |-> mode, content |-> content, conversation_history |-> << >>,
     question_count |-> 0, current_question |-> first_question,
     interview_active |-> TRUE]

NoSession ==
    [mode |-> "", content |-> "", conversation_history |-> << >>,
     question_count |-> 0, current_question |-> << >>,
     interview_active |-> FALSE]

NoEvaluation == [none |-> TRUE]

\* Per session dict, since its start: the answers accepted with a 200, the
\* judgments that asked for a follow-up, the oracle calls that failed after
\* the evaluation.
NoTally == [answered |-> 0, followups |-> 0, late_failures |-> 0]

IdleThread ==
    [pc |-> "idle", op |-> "none", session_id |-> "", answer |-> "",
     requested |-> "", mode |-> "", content |-> "",
     session |-> NoObj, current_question |-> << >>,
     evaluation |-> NoEvaluation, is_followup |-> FALSE, prompt |-> << >>,
     calls |-> {}, found |-> FALSE, pre |-> NoSession,
     response_text |-> << >>, payload |-> << >>,
     resp |-> [status |-> 0]]

\* The session dicts some name still refers to.
Referenced(ss, thr) ==
    {ss[id] : id \in DOMAIN ss} \cup {thr[t].session : t \in DOMAIN thr}

Collect(f, ss, thr) ==
    [o \in DOMAIN f \cap Referenced(ss, thr) |-> f[o]]

NewObj == CHOOSE o \in ObjIds : o \notin Referenced(sessions, th)

Session(session_id) == heap[sessions[session_id]]

Exists(session_id) == session_id \in DOMAIN sessions

InFlight(t) == th[t].pc # "idle"

\* A request has returned: the thread keeps what it was called with and what
\* it answered, and lets go of the session dict.
Return(me, resp) ==
    [me EXCEPT !.pc = "idle", !.session = NoObj, !.resp = resp]

\* raise HTTPException(status_code=..., detail=...)
ErrorConverted(status, detail) == [status |-> 500, detail |-> detail]

Error(status, detail) == [status |-> status, detail |-> detail]

\* Lines 181-182: except Exception -> HTTPException(status_code=500); the
\* framework does the same for what a handler without try lets through.
InternalError(detail) == Error(500, detail)

\* A thread takes a request.
Accept(op, session_id, answer) ==
    [IdleThread EXCEPT !.op = op, !.session_id = session_id, !.answer = answer,
       !.found = Exists(session_id),
       !.pre = IF Exists(session_id) THEN Session(session_id) ELSE NoSession]

\* Line 127: session["interview_active"]
ActiveUnchecked(session) == TRUE

Active(session) == session.interview_active

\* Line 149: session["question_count"] >= max_questions
InterviewOverLate(question_count) == question_count > max_questions

InterviewOver(question_count) == question_count >= max_questions

\* Line 163: evaluation.get("needs_followup", False)
NeedsFollowupByDefault(evaluation) ==
    IF "needs_followup" \in DOMAIN evaluation THEN evaluation.needs_followup
    ELSE TRUE

NeedsFollowup(evaluation) ==
    IF "needs_followup" \in DOMAIN evaluation THEN evaluation.needs_followup
    ELSE FALSE

\* Lines 137-143, without the timestamp.
Exchange(question, answer, evaluation) ==
    [question |-> question, answer |-> answer,
     feedback |-> evaluation.feedback, score |-> evaluation.score]

\* Lines 140-141: evaluation["feedback"] and evaluation["score"] raise
\* KeyError on a judgment without them.
Usable(evaluation) == {"feedback", "score"} \subseteq DOMAIN evaluation

\* Lines 137-146: the exchange is appended and the count advanced.
StoredInFront(session, question, answer, evaluation) ==
    [session EXCEPT
       !.conversation_history = <<Exchange(question, answer, evaluation)>> \o @,
       !.question_count = @ + 1]

StoredUncounted(session, question, answer, evaluation) ==
    [session EXCEPT
       !.conversation_history = Append(@, Exchange(question, answer, evaluation))]

Stored(session, question, answer, evaluation) ==
    [session EXCEPT
       !.conversation_history = Append(@, Exchange(question, answer, evaluation)),
       !.question_count = @ + 1]

\* Line 152 and line 230.
StillActive(session) == session

Ended(session) == [session EXCEPT !.interview_active = FALSE]

\* Line 170.
Asked(session, next_question) ==
    [session EXCEPT !.current_question = next_question]

(***************************************************************************)
(* start_interview                                                         *)
(***************************************************************************)
\* Line 96: request.session_id or f"session_{datetime.now().timestamp()}"
SessionIdFor(requested, now) ==
    IF requested # NoId THEN requested ELSE "session_" \o ToString(now)

StartInterviewAlone(t, mode, content, requested, now) ==
    /\ ~InFlight(t)
    /\ LET session_id == SessionIdFor(requested, now)
           o   == NewObj
           ss  == (session_id :> o)
           thr == [th EXCEPT ![t] =
                     [Accept("start", session_id, "") EXCEPT
                        !.requested = requested, !.mode = mode,
                        !.content = content,
                        !.resp = [status |-> 200, session_id |-> session_id,
                                  first_question |-> first_question,
                                  message |-> "Interview started successfully"]]]
       IN  /\ sessions' = ss
           /\ th' = thr
           /\ heap' = Collect((o :> NewSession(mode, content)) @@ heap, ss, thr)
           /\ tally' = Collect((o :> NoTally) @@ tally, ss, thr)

StartInterviewKeeping(t, mode, content, requested, now) ==
    /\ ~InFlight(t)
    /\ LET session_id == SessionIdFor(requested, now)
           kept == Exists(session_id)
           o   == IF kept THEN sessions[session_id] ELSE NewObj
           ss  == (session_id :> o) @@ sessions
           thr == [th EXCEPT ![t] =
                     [Accept("start", session_id, "") EXCEPT
                        !.requested = requested, !.mode = mode,
                        !.content = content,
                        !.resp = [status |-> 200, session_id |-> session_id,
                                  first_question |-> first_question,
                                  message |-> "Interview started successfully"]]]
       IN  /\ sessions' = ss
           /\ th' = thr
           /\ heap' = Collect(IF kept THEN heap
                              ELSE (o :> NewSession(mode, content)) @@ heap,
                              ss, thr)
           /\ tally' = Collect(IF kept THEN tally ELSE (o :> NoTally) @@ tally,
                               ss, thr)

StartInterview(t, mode, content, requested, now) ==
    /\ ~InFlight(t)
    /\ LET session_id == SessionIdFor(requested, now)
           o   == NewObj
           ss  == (session_id :> o) @@ sessions
           thr == [th EXCEPT ![t] =
                     [Accept("start", session_id, "") EXCEPT
                        !.requested = requested, !.mode = mode,
                        !.content = content,
                        !.resp = [status |-> 200, session_id |-> session_id,
                                  first_question |-> first_question,
                                  message |-> "Interview started successfully"]]]
       IN  /\ sessions' = ss
           /\ th' = thr
           /\ heap' = Collect((o :> NewSession(mode, content)) @@ heap, ss, thr)
           /\ tally' = Collect((o :> NoTally) @@ tally, ss, thr)

(***************************************************************************)
(* submit_answer                                                           *)
(***************************************************************************)
\* Lines 123-134: look the session up, check it, read the current question
\* and call the evaluator.
SubmitAnswer(t, session_id, answer) ==
    /\ ~InFlight(t)
    /\ LET req == Accept("answer", session_id, answer)
       IN  th' = [th EXCEPT ![t] =
             IF ~Exists(session_id)
             THEN [req EXCEPT !.resp = Error(404, "Session not found")]
             ELSE IF ~Active(Session(session_id))
             THEN [req EXCEPT !.resp = Error(400, "Interview already ended")]
             ELSE [req EXCEPT
                     !.pc = "evaluate",
                     !.session = sessions[session_id],
                     !.current_question = Session(session_id).current_question,
                     !.prompt = EvaluatePrompt(
                                   Session(session_id).current_question, answer,
                                   Session(session_id).content),
                     !.calls = {"evaluate"}]]
    /\ UNCHANGED <<sessions, heap, tally>>

\* Lines 259-265 raise (the oracle call fails, or its text is not JSON):
\* line 181 turns it into a 500.
EvaluateAnswerRaiseCounted(t, error) ==
    /\ th[t].pc = "evaluate"
    /\ th' = [th EXCEPT ![t] = Return(th[t], InternalError(error))]
    /\ heap' = Collect([heap EXCEPT ![th[t].session].question_count = @ + 1],
                       sessions, th')
    /\ tally' = Collect(tally, sessions, th')
    /\ UNCHANGED sessions

EvaluateAnswerRaise(t, error) ==
    /\ th[t].pc = "evaluate"
    /\ th' = [th EXCEPT ![t] = Return(th[t], InternalError(error))]
    /\ heap' = Collect(heap, sessions, th')
    /\ tally' = Collect(tally, sessions, th')
    /\ UNCHANGED sessions

\* Lines 136-168 once evaluate_answer has returned: the exchange is stored,
\* the count is advanced, and the next oracle call is made.
EvaluateAnswerReturn(t, evaluation) ==
    /\ th[t].pc = "evaluate"
    /\ NeedsFollowup(evaluation) =>
          tally[th[t].session].followups < MaxFollowups
    /\ LET o  == th[t].session
           s  == heap[o]
           me == [th[t] EXCEPT !.evaluation = evaluation]
       IN  IF ~Usable(evaluation)
           THEN \* KeyError while the exchange dict is built, before append
                /\ th' = [th EXCEPT ![t] =
                            Return(me, InternalError("KeyError"))]
                /\ heap' = Collect(heap, sessions, th')
                /\ tally' = Collect(tally, sessions, th')
           ELSE LET s1 == Stored(s, th[t].current_question, th[t].answer,
                                  evaluation)
                IN  /\ heap' = [heap EXCEPT ![o] = s1]
                    /\ tally' = [tally EXCEPT ![o].followups =
                                   IF NeedsFollowup(evaluation) THEN @ + 1
                                   ELSE @]
                    /\ th' = [th EXCEPT ![t] =
                         IF InterviewOver(s1.question_count)
                         THEN [me EXCEPT
                                 !.pc = "final",
                                 !.prompt = FinalFeedbackPrompt(
                                               s1.conversation_history),
                                 !.calls = @ \cup {"final"}]
                         ELSE IF NeedsFollowup(evaluation)
                         THEN [me EXCEPT
                                 !.pc = "followup",
                                 !.is_followup = TRUE,
                                 !.prompt = FollowupPrompt(
                                               th[t].current_question,
                                               th[t].answer, evaluation),
                                 !.calls = @ \cup {"followup"}]
                         ELSE [me EXCEPT
                                 !.pc = "next",
                                 !.is_followup = FALSE,
                                 !.prompt = NextQuestionPrompt(s1),
                                 !.calls = @ \cup {"next"}]]
    /\ UNCHANGED sessions

\* A handler of submit_answer fails in an oracle call made after the
\* evaluation: line 181 turns it into a 500.
SubmitRaise(t, at, error) ==
    /\ th[t].pc = at
    /\ tally[th[t].session].late_failures < MaxLateFailures
    /\ th' = [th EXCEPT ![t] = Return(th[t], InternalError(error))]
    /\ heap' = Collect(heap, sessions, th')
    /\ tally' = Collect([tally EXCEPT ![th[t].session].late_failures = @ + 1],
                        sessions, th')
    /\ UNCHANGED sessions

\* Line 151 raises.
SubmitFinalFeedbackRaise(t, error) == SubmitRaise(t, "final", error)

\* Lines 151-160: the final feedback has come back.
SubmitFinalFeedbackReturn(t, reply) ==
    /\ th[t].pc = "final"
    /\ LET o == th[t].session
           f == [heap EXCEPT ![o] = Ended(@)]
           a == [tally EXCEPT ![o].answered = @ + 1]
       IN  /\ th' = [th EXCEPT ![t] =
                  Return(th[t], [status |-> 200,
                             feedback |-> th[t].evaluation.feedback,
                             next_question |-> None,
                             is_followup |-> FALSE,
                             interview_complete |-> TRUE,
                             final_feedback |-> Strip(reply)])]
           /\ heap' = Collect(f, sessions, th')
           /\ tally' = Collect(a, sessions, th')
    /\ UNCHANGED sessions

\* Line 166 raises.
GenerateFollowupRaise(t, error) == SubmitRaise(t, "followup", error)

\* Line 168 raises.
GenerateNextQuestionRaise(t, error) == SubmitRaise(t, "next", error)

\* Lines 170-178: the question has come back.
QuestionReturn(t, at, reply) ==
    /\ th[t].pc = at
    /\ LET o == th[t].session
           next_question == Strip(reply)
           f == [heap EXCEPT ![o] = Asked(@, next_question)]
           a == [tally EXCEPT ![o].answered = @ + 1]
       IN  /\ th' = [th EXCEPT ![t] =
                  Return(th[t], [status |-> 200,
                             feedback |-> th[t].evaluation.feedback,
                             next_question |-> next_question,
                             is_followup |-> th[t].is_followup,
                             interview_complete |-> FALSE,
                             final_feedback |-> None])]
           /\ heap' = Collect(f, sessions, th')
           /\ tally' = Collect(a, sessions, th')
    /\ UNCHANGED sessions

GenerateFollowupReturn(t, reply) == QuestionReturn(t, "followup", reply)

GenerateNextQuestionReturn(t, reply) == QuestionReturn(t, "next", reply)

(***************************************************************************)
(* get_session_status                                                      *)
(***************************************************************************)
GetSessionStatus(t, session_id) ==
    /\ ~InFlight(t)
    /\ LET req == Accept("status", session_id, "")
       IN  th' = [th EXCEPT ![t] =
             IF ~Exists(session_id)
             THEN [req EXCEPT !.resp = Error(404, "Session not found")]
             ELSE [req EXCEPT !.resp =
                     [status |-> 200, session_id |-> session_id,
                      mode |-> Session(session_id).mode,
                      question_count |-> Session(session_id).question_count,
                      total_exchanges |->
                         Len(Session(session_id).conversation_history),
                      current_question |->
                         Session(session_id).current_question,
                      interview_active |->
                         Session(session_id).interview_active]]]
    /\ UNCHANGED <<sessions, heap, tally>>

(***************************************************************************)
(* end_interview                                                           *)
(***************************************************************************)
\* Lines 225-229: look the session up and ask for the final feedback.
EndInterview(t, session_id) ==
    /\ ~InFlight(t)
    /\ LET req == Accept("end", session_id, "")
       IN  th' = [th EXCEPT ![t] =
             IF ~Exists(session_id)
             THEN [req EXCEPT !.resp = Error(404, "Session not found")]
             ELSE [req EXCEPT
                     !.pc = "end_final",
                     !.session = sessions[session_id],
                     !.prompt = FinalFeedbackPrompt(
                                   Session(session_id).conversation_history),
                     !.calls = {"final"}]]
    /\ UNCHANGED <<sessions, heap, tally>>

\* Line 229 raises; the handler has no try, the framework answers 500.
EndFinalFeedbackRaise(t, error) ==
    /\ th[t].pc = "end_final"
    /\ th' = [th EXCEPT ![t] = Return(th[t], InternalError(error))]
    /\ heap' = Collect(heap, sessions, th')
    /\ tally' = Collect(tally, sessions, th')
    /\ UNCHANGED sessions

\* Lines 230-236.
EndFinalFeedbackReturn(t, reply) ==
    /\ th[t].pc = "end_final"
    /\ LET o == th[t].session
           f == [heap EXCEPT ![o] = Ended(@)]
       IN  /\ th' = [th EXCEPT ![t] =
                  Return(th[t], [status |-> 200,
                             message |-> "Interview ended",
                             final_feedback |-> Strip(reply),
                             total_questions |-> heap[o].question_count])]
           /\ heap' = Collect(f, sessions, th')
           /\ tally' = Collect(tally, sessions, th')
    /\ UNCHANGED sessions

(***************************************************************************)
(* Specifications.                                                         *)
(***************************************************************************)
Init ==
    /\ sessions = << >>
    /\ heap = << >>
    /\ tally = << >>
    /\ th = [t \in Threads |-> IdleThread]

\* What a worker thread may do next, but for the closing of an interview
\* by its last answer, on requests drawn from the given sets; a further
\* answer is taken while the session's history is shorter than cap.
ServeOn(t, cap, modes, contents, starts, ids) ==
    \/ \E mode \in modes, content \in contents, requested \in starts,
          now \in Clock :
          StartInterview(t, mode, content, requested, now)
    \/ \E session_id \in ids, answer \in Answers :
          /\ Exists(session_id) =>
                Len(Session(session_id).conversation_history) < cap
          /\ SubmitAnswer(t, session_id, answer)
    \/ \E error \in EvaluateErrors : EvaluateAnswerRaise(t, error)
    \/ \E evaluation \in Judgments : EvaluateAnswerReturn(t, evaluation)
    \/ \E error \in GenerationErrors : GenerateFollowupRaise(t, error)
    \/ \E reply \in FollowupReplies : GenerateFollowupReturn(t, reply)
    \/ \E error \in GenerationErrors : GenerateNextQuestionRaise(t, error)
    \/ \E reply \in NextReplies : GenerateNextQuestionReturn(t, reply)
    \/ \E session_id \in ids : GetSessionStatus(t, session_id)
    \/ \E session_id \in ids : EndInterview(t, session_id)
    \/ \E error \in GenerationErrors : EndFinalFeedbackRaise(t, error)
    \/ \E reply \in FinalReplies : EndFinalFeedbackReturn(t, reply)

Serve(t, cap) == ServeOn(t, cap, Modes, Contents, SessionIds, SessionIds)

\* The closing of an interview by its last answer.
Close(t) ==
    \/ \E error \in GenerationErrors : SubmitFinalFeedbackRaise(t, error)
    \/ \E reply \in FinalReplies : SubmitFinalFeedbackReturn(t, reply)

\* Requests handled one at a time: a single worker.
Next == \E t \in SerialThreads : Serve(t, MaxHistory) \/ Close(t)

Spec == Init /\ [][Next]_vars

\* Requests handled concurrently by the workers of the thread pool, on
\* histories too short for an interview to close by its last answer.
NextConc == \E t \in Threads : Serve(t, MaxConcHistory)

SpecConc == Init /\ [][NextConc]_vars

\* Lines 259-263: evaluate_answer has the oracle's output and extracts the
\* payload from it.
ExtractPayload(t) ==
    /\ th[t].pc = "parse"
    /\ th' = [th EXCEPT ![t].pc = "parsed",
                        ![t].payload = Payload(th[t].response_text)]
    /\ UNCHANGED <<sessions, heap, tally>>

\* evaluate_answer alone, on every output the oracle may give.
InitExtract ==
    /\ sessions = << >>
    /\ heap = << >>
    /\ tally = << >>
    /\ \E text \in Texts :
          th = [t \in Threads |->
                  IF t \in SerialThreads
                  THEN [IdleThread EXCEPT !.pc = "parse", !.op = "evaluate",
                                          !.response_text = text]
                  ELSE IdleThread]

NextExtract == \E t \in SerialThreads : ExtractPayload(t)

SpecExtract == InitExtract /\ [][NextExtract]_vars

\* Two clients, each with a session id of its own.
TwoIds == {"s1", "s2"}

\* Requests handled one at a time on the sessions of two clients, on
\* histories too short for an interview to close by its last answer.
NextTwo ==
    \E t \in SerialThreads :
       ServeOn(t, MaxTwoHistory, {"role"}, Contents, TwoIds, TwoIds)

SpecTwo == Init /\ [][NextTwo]_vars

\* Lines 46-49: mode and content are plain str fields, so a request may carry
\* any string in them, the empty one included.
AnyModes == Modes \cup {"interview"}

AnyContents == Contents \cup {""}

\* The ids that line 96 makes up for requests without one.
ClockIds == {SessionIdFor(NoId, now) : now \in Clock}

\* Starts without a session_id, with any mode and content, and status
\* requests on the ids they were given.
NextStart ==
    \E t \in SerialThreads :
       \/ \E mode \in AnyModes, content \in AnyContents, now \in Clock :
             StartInterview(t, mode, content, NoId, now)
       \/ \E session_id \in ClockIds : GetSessionStatus(t, session_id)

SpecStart == Init /\ [][NextStart]_vars

(***************************************************************************)
(* The claims.                                                             *)
(***************************************************************************)
\* The thread is between requests and the last one it handled was op.
Handled(t, op) == ~InFlight(t) /\ th[t].op = op

\* The session holds what the other held in the four fields a request may
\* change.
SameState(s, p) ==
    /\ s.conversation_history = p.conversation_history
    /\ s.question_count = p.question_count
    /\ s.current_question = p.current_question
    /\ s.interview_active = p.interview_active

\* The session of the thread's last request is as that request found it.
Untouched(t) ==
    /\ Exists(th[t].session_id)
    /\ SameState(Session(th[t].session_id), th[t].pre)

\* The evaluator gave the thread's last request no judgment: the oracle call
\* failed, or its output did not parse as the judgment structure.
NoJudgment(t) == ~({"feedback", "score"} \subseteq DOMAIN th[t].evaluation)

\* C1: a submit_answer that fails with a 500 (an oracle call of it failed)
\* leaves the session's conversation_history, question_count, current_question
\* and interview_active as they were before the request.
C1_FailedAnswerLeavesSession ==
    \A t \in Threads :
       Handled(t, "answer") /\ th[t].resp.status = 500 => Untouched(t)

\* C2: a submit_answer on an active session whose evaluation fails (oracle
\* error, or output that is not the judgment structure) fails with a 500,
\* appends no exchange and leaves the session's history, question_count,
\* current_question and interview_active unchanged.
C2_FailedEvaluationLeavesSession ==
    \A t \in Threads :
       Handled(t, "answer") /\ th[t].found /\ th[t].pre.interview_active
          /\ NoJudgment(t)
       => /\ th[t].resp.status = 500
          /\ th[t].calls = {"evaluate"}
          /\ Untouched(t)

C2_Witness ==
    \E t \in Threads :
       /\ Handled(t, "answer") /\ th[t].found /\ th[t].pre.interview_active
       /\ NoJudgment(t)
       /\ th[t].resp.status = 500
       /\ Len(th[t].pre.conversation_history) > 0

\* C3: a session that has had max_questions successful submit_answer calls
\* since its start is ended and never has more of them, whether the questions
\* answered were follow-ups or not; a submit_answer on an ended session fails
\* with a 400.
C3_EndsAfterMaxQuestions ==
    /\ \A id \in DOMAIN sessions :
          /\ tally[sessions[id]].answered <= max_questions
          /\ tally[sessions[id]].answered = max_questions
                => ~Session(id).interview_active
    /\ \A t \in Threads :
          Handled(t, "answer") /\ th[t].found /\ ~th[t].pre.interview_active
             => th[t].resp.status = 400

C3_Witness ==
    \E t \in Threads :
       /\ Handled(t, "answer") /\ th[t].resp.status = 400
       /\ Exists(th[t].session_id)
       /\ tally[sessions[th[t].session_id]].answered = max_questions
       /\ tally[sessions[th[t].session_id]].followups > 0

\* No request is being handled.
Quiet == \A t \in Threads : ~InFlight(t)

\* C4: with requests handled one at a time, between requests every active
\* session has question_count = len(conversation_history), and as long as the
\* id is not started again no step lowers its question_count.
C4_CountIsHistoryLength ==
    /\ [](Quiet =>
            \A id \in DOMAIN sessions :
               Session(id).interview_active =>
                  Session(id).question_count =
                     Len(Session(id).conversation_history))
    /\ [][\A id \in DOMAIN sessions :
             sessions'[id] = sessions[id] =>
                heap'[sessions'[id]].question_count >= Session(id).question_count]_vars

C4_Witness ==
    /\ Quiet
    /\ \E id \in DOMAIN sessions :
          /\ Session(id).interview_active
          /\ Session(id).question_count = max_questions
          /\ \E t \in Threads : Handled(t, "answer") /\ th[t].resp.status = 500

\* The thread is between its read of the session and its last write to it.
Mutating(t) == InFlight(t) /\ th[t].op \in {"answer", "end"}

\* C5: no two mutating operations on one session id are in flight together.
C5_OneMutatorPerSession ==
    \A t, u \in Threads :
       t # u /\ Mutating(t) /\ Mutating(u) => th[t].session_id # th[u].session_id

\* C6: a submit_answer or end called on a session whose interview_active is
\* false never changes its conversation_history, current_question or
\* question_count, and the submit_answer fails with a 400 and calls no oracle.
C6_InactiveSessionIsFrozen ==
    \A t \in Threads :
       th[t].op \in {"answer", "end"} /\ th[t].found
          /\ ~th[t].pre.interview_active
       => /\ Untouched(t)
          /\ th[t].op = "answer" =>
                /\ ~InFlight(t)
                /\ th[t].resp.status = 400
                /\ th[t].calls = {}

C6_Witness ==
    \E t \in Threads :
       /\ Handled(t, "end") /\ th[t].found /\ ~th[t].pre.interview_active
       /\ th[t].resp.status = 200
       /\ Len(th[t].pre.conversation_history) = max_questions

\* C7: submit_answer and end fail on an ended session; end in particular
\* does not return a new final feedback.
C7_EndedSessionRefuses ==
    \A t \in Threads :
       ~InFlight(t) /\ th[t].op \in {"answer", "end"} /\ th[t].found
          /\ ~th[t].pre.interview_active
       => th[t].resp.status >= 400

\* C8: a successful submit_answer leaves the history it found with one
\* exchange added at the end, whose question is the current_question it found
\* and whose answer is the one submitted; one that fails with 404 or 400
\* appends nothing.
C8_OneExchangePerAnswer ==
    \A t \in Threads :
       Handled(t, "answer") =>
          /\ th[t].resp.status = 200 =>
                LET before == th[t].pre.conversation_history
                    after  == Session(th[t].session_id).conversation_history
                IN  /\ Len(after) = Len(before) + 1
                    /\ SubSeq(after, 1, Len(before)) = before
                    /\ after[Len(after)].question = th[t].pre.current_question
                    /\ after[Len(after)].answer = th[t].answer
          /\ th[t].resp.status = 404 =>
                ~th[t].found /\ ~Exists(th[t].session_id)
          /\ th[t].resp.status = 400 =>
                Session(th[t].session_id).conversation_history =
                   th[t].pre.conversation_history

C8_Witness ==
    \E t \in Threads :
       /\ Handled(t, "answer") /\ th[t].resp.status = 200
       /\ Len(th[t].pre.conversation_history) >= 2
       /\ th[t].pre.conversation_history[1] # th[t].pre.conversation_history[2]

\* The texts a generator may give, stripped.
Stripped(replies) == {Strip(reply) : reply \in replies}

\* C9: a successful submit_answer that does not end the interview answers
\* is_followup = the judgment's needs_followup (false when absent), has called
\* the follow-up generator and not the next-question one when it is true and
\* the other way round when it is false, and has made the generated text both
\* its next_question and the session's current_question.
C9_FollowupAsJudged ==
    \A t \in Threads :
       Handled(t, "answer") /\ th[t].resp.status = 200
          /\ ~th[t].resp.interview_complete
       => LET judged == /\ "needs_followup" \in DOMAIN th[t].evaluation
                        /\ th[t].evaluation.needs_followup
          IN  /\ th[t].resp.is_followup = judged
              /\ th[t].calls = {"evaluate", IF judged THEN "followup" ELSE "next"}
              /\ th[t].resp.next_question \in
                    Stripped(IF judged THEN FollowupReplies ELSE NextReplies)
              /\ Session(th[t].session_id).current_question =
                    th[t].resp.next_question

C9_Witness ==
    \E t \in Threads :
       /\ Handled(t, "answer") /\ th[t].resp.status = 200
       /\ ~th[t].resp.interview_complete
       /\ th[t].resp.is_followup
       /\ Len(th[t].pre.conversation_history) > 0

\* C10: the submit_answer that brings question_count to max_questions answers
\* interview_complete, a final feedback asked for the whole history with the
\* new exchange, no next question and is_followup false, calls no question
\* generator and leaves current_question alone.
C10_LastAnswerCloses ==
    \A t \in Threads :
       Handled(t, "answer") /\ th[t].found
          /\ th[t].pre.question_count = max_questions - 1
          /\ Session(th[t].session_id).question_count = max_questions
       => /\ th[t].resp.status = 200
          /\ th[t].resp.interview_complete
          /\ th[t].resp.final_feedback # None
          /\ th[t].resp.next_question = None
          /\ ~th[t].resp.is_followup
          /\ th[t].prompt = FinalFeedbackPrompt(
                               Session(th[t].session_id).conversation_history)
          /\ th[t].calls = {"evaluate", "final"}
          /\ Session(th[t].session_id).current_question =
                th[t].pre.current_question

\* C11: an end that finds the session active with fewer than max_questions
\* exchanges (none included) answers a final feedback and total_questions =
\* question_count, leaves the session inactive and its history,
\* question_count and current_question as they were; when its oracle call
\* fails the session stays as it was, active.
C11_EndClosesEarly ==
    \A t \in Threads :
       Handled(t, "end") /\ th[t].found /\ th[t].pre.interview_active
          /\ Len(th[t].pre.conversation_history) < max_questions
       => LET s == Session(th[t].session_id)
          IN  IF th[t].resp.status = 200
              THEN /\ ~s.interview_active
                   /\ th[t].resp.final_feedback # None
                   /\ th[t].resp.total_questions = s.question_count
                   /\ s.conversation_history = th[t].pre.conversation_history
                   /\ s.question_count = th[t].pre.question_count
                   /\ s.current_question = th[t].pre.current_question
              ELSE /\ th[t].resp.status = 500
                   /\ s = th[t].pre

C11_Witness ==
    \E t \in Threads :
       /\ Handled(t, "end") /\ th[t].found /\ th[t].pre.interview_active
       /\ th[t].pre.conversation_history = << >>
       /\ th[t].resp.status = 200

\* C12: a start with an explicit session_id that is already in the store
\* leaves under that id the session of this call alone: no history, count 0,
\* active, the opening question, this call's mode and content.
C12_LastStartWins ==
    \A t \in Threads :
       Handled(t, "start") /\ th[t].requested # NoId /\ th[t].found
       => /\ th[t].resp.status = 200
          /\ th[t].resp.session_id = th[t].requested
          /\ Exists(th[t].requested)
          /\ Session(th[t].requested) = NewSession(th[t].mode, th[t].content)
          /\ Session(th[t].requested).conversation_history = << >>
          /\ Session(th[t].requested).question_count = 0
          /\ Session(th[t].requested).interview_active
          /\ Session(th[t].requested).current_question = first_question

C12_Witness ==
    \E t \in Threads :
       /\ Handled(t, "start") /\ th[t].requested # NoId /\ th[t].found
       /\ th[t].pre.conversation_history # << >>
       /\ ~th[t].pre.interview_active
       /\ th[t].pre.mode # th[t].mode

\* C16: question_count and the length of conversation_history never exceed
\* max_questions, whatever the requests and the oracle failures.
C16_NeverOverMaxQuestions ==
    \A id \in DOMAIN sessions :
       /\ Session(id).question_count <= max_questions
       /\ Len(Session(id).conversation_history) <= max_questions

\* C19: the history given to the next-question generator is the last
\* min(3, n) exchanges of the n that conversation_history holds once the
\* answered exchange has been appended, in order, the answered one last.
C19_GroundedOnLastThree ==
    \A t \in Threads :
       th[t].pc = "next"
       => LET h == heap[th[t].session].conversation_history
              n == Len(h)
              k == IF n < 3 THEN n ELSE 3
              given == th[t].prompt[4]
          IN  /\ n = Len(th[t].pre.conversation_history) + 1
              /\ h[n].answer = th[t].answer
              /\ h[n].question = th[t].pre.current_question
              /\ Len(given) = k
              /\ \A i \in 1..k :
                    given[i] = <<h[n - k + i].question, h[n - k + i].answer>>

C19_Witness ==
    \E t \in Threads :
       /\ th[t].pc = "next"
       /\ Len(heap[th[t].session].conversation_history) >= 4
       /\ Len(th[t].prompt[4]) = 3

\* C13: a start whose mode is neither "role" nor "resume", or whose content
\* is empty, fails with a client error, calls no oracle, and neither creates
\* nor overwrites a session.
C13_BadStartRefused ==
    \A t \in Threads :
       Handled(t, "start") /\ (th[t].mode \notin Modes \/ th[t].content = "")
       => /\ th[t].resp.status \in 400..499
          /\ th[t].calls = {}
          /\ IF th[t].found
             THEN Exists(th[t].session_id)
                  /\ Session(th[t].session_id) = th[t].pre
             ELSE ~Exists(th[t].session_id)

\* C15: a start without session_id is never given an id that an earlier
\* start without session_id was given, be the clock reading the same.
C15_FreshGeneratedId ==
    \A t \in Threads :
       Handled(t, "start") /\ th[t].requested = NoId => ~th[t].found

\* The thread takes a request in this step.
Takes(t) == ~InFlight(t) /\ th'[t] # th[t]

\* C14: submit_answer, get_session_status and end_interview on an id that is
\* not in the store each answer 404 (not 500), call no oracle, and leave the
\* whole store as it was.
C14_UnknownIdIs404 ==
    /\ [](\A t \in Threads :
            th[t].op \in {"answer", "status", "end"} /\ ~th[t].found
            => /\ ~InFlight(t)
               /\ th[t].resp.status = 404
               /\ th[t].calls = {})
    /\ [][\A t \in Threads :
            Takes(t) /\ th'[t].op \in {"answer", "status", "end"}
                     /\ ~th'[t].found
            => /\ sessions' = sessions
               /\ heap' = heap]_vars

C14_Witness ==
    \E t \in Threads :
       /\ Handled(t, "answer") /\ ~th[t].found
       /\ th[t].resp.status = 404
       /\ DOMAIN sessions # {}
       /\ \E id \in DOMAIN sessions : Session(id).conversation_history # << >>

\* C18: a step of submit_answer, end_interview or get_session_status on one
\* id leaves the session of every other id as it was, and a start changes
\* the entry of the id it answers and no other; no step adds or drops
\* another id.
C18_OtherSessionsUntouched ==
    [][\A t \in Threads :
          th'[t] # th[t]
          => /\ th'[t].op = "start" => th'[t].resp.session_id = th'[t].session_id
             /\ DOMAIN sessions' \ {th'[t].session_id}
                   = DOMAIN sessions \ {th'[t].session_id}
             /\ \A id \in DOMAIN sessions \ {th'[t].session_id} :
                   heap'[sessions'[id]] = heap[sessions[id]]]_vars

C18_Witness ==
    \E t \in Threads :
       /\ Handled(t, "start") /\ th[t].found
       /\ th[t].pre.conversation_history # << >>
       /\ \E id \in DOMAIN sessions \ {th[t].session_id} :
             Session(id).conversation_history # << >>

\* C17: once an end_interview has returned, leaving the session inactive,
\* no step changes the session's conversation_history, question_count or
\* current_question or makes it active again, a submit_answer that was past
\* its active check when the end ran included.
C17_EndedStaysEnded ==
    [][\A id \in DOMAIN sessions :
          (/\ ~Session(id).interview_active
           /\ \E t \in Threads :
                 Handled(t, "end") /\ th[t].session_id = id
                    /\ th[t].resp.status = 200
           /\ id \in DOMAIN sessions' /\ sessions'[id] = sessions[id])
          => SameState(heap'[sessions'[id]], heap[sessions[id]])]_vars

\* C20: the payload that evaluate_answer extracts from an oracle output with
\* a fence marker, followed by the language tag or not, is what stands
\* between the first opening marker and the next closing one; from an output
\* without a marker it is the whole trimmed output.
C20_PayloadBetweenFences ==
    \A t \in Threads :
       th[t].pc = "parsed"
       => LET text   == Strip(th[t].response_text)
              fences == FencesIn(text)
              from   == IF Min(fences) \in TagsIn(text) THEN Min(fences) + 2
                        ELSE Min(fences) + 1
              closes == {i \in fences : i >= from}
          IN  IF fences = {} THEN th[t].payload = text
              ELSE closes # {}
                   => th[t].payload
                         = Strip(SubSeq(text, from, Min(closes) - 1))

====
